---- MODULE Spec2Model ----
(***************************************************************************)
(* HVAC dispatch: the job / technician store of backend/models.py, the     *)
(* operations of backend/database.py (DatabaseHelper), the scoring engine  *)
(* of backend/assignment_engine.py (AssignmentEngine) and the HTTP         *)
(* handlers of backend/api.py that call them.                              *)
(*                                                                         *)
(* Units.  Time is in minutes since the store was created.  Coordinates    *)
(* are tenths of a degree on a small grid next to (0,0).  Distances are    *)
(* whole miles (the floor of the great-circle distance).  Factor scores    *)
(* are in units of 1/6000, weights in hundredths, priority multipliers in  *)
(* tenths, so every score of the engine is an exact integer.               *)
(***************************************************************************)
EXTENDS Integers, Sequences, FiniteSets, TLC

\* ------------------------------------------------------------------ bounds
NumJobs == 2
NumTechs == 2
NumProcs == 2
NumConns == 3

JobIds == 1..NumJobs
TechIds == 1..NumTechs
\* Each process is one DatabaseHelper with a session of its own on the store.
Procs == 1..NumProcs
Conns == 1..NumConns
\* A job id that names no row of the jobs table.
MissingJob == 0
ClockHours == {0, 20}

\* ------------------------------------------------------- values of the store
\* Python None in a nullable numeric column.
None == -1

Priority == {"ROUTINE", "URGENT", "HIGH", "CRITICAL", "EMERGENCY"}
JobStatus == {"PENDING", "ASSIGNED", "IN_PROGRESS", "COMPLETED", "CANCELLED"}
\* Job.sla_met is a nullable Boolean column.
SlaValues == {"null", "true", "false"}

\* ------------------------------------------------------------ geo utility
\* floor(haversine) in miles for a displacement of (dlat, dlon) tenths of a
\* degree, R = 3958.8; row = dlat + 1, column = dlon + 1.
MilesTable ==
  << << 0,  6, 13, 20, 27, 34>>,
     << 6,  9, 15, 21, 28, 35>>,
     <<13, 15, 19, 24, 30, 37>>,
     <<20, 21, 24, 29, 34, 40>>,
     <<27, 28, 30, 34, 39, 44>>,
     <<34, 35, 37, 40, 44, 48>> >>

Abs(x) == IF x < 0 THEN -x ELSE x

GreatCircle(lat1, lon1, lat2, lon2) ==
  MilesTable[Abs(lat2 - lat1) + 1][Abs(lon2 - lon1) + 1]

\* DatabaseHelper.haversine: a None coordinate gives distance 0.0.
haversine(lat1, lon1, lat2, lon2) ==
  IF lat1 = None \/ lon1 = None \/ lat2 = None \/ lon2 = None
  THEN 0
  ELSE GreatCircle(lat1, lon1, lat2, lon2)

\* Python `x or 0` on a nullable float.
OrZero(x) == IF x = None THEN 0 ELSE x

AvgSpeedMph == 30
\* distance / 30 hours, in minutes.
TravelMinutes(distance) == (distance * 60) \div AvgSpeedMph


\* ------------------------------------------------------------------- state
VARIABLES
  now,          \* datetime.utcnow(), minutes
  jobs,         \* the jobs table: JobIds -> row
  techs,        \* the technicians table: TechIds -> row
  assignments,  \* the assignments table: set of rows
  pc,           \* per process: where it is inside auto_assign_job
  pjob,         \* per process: the job id auto_assign_job was called with
  psel,         \* per process: what find_best_technician returned
  last,         \* the last call that returned: what it was and its outcome
  pending,      \* api.py's shared session: the writes it has not committed
  client,       \* per WebSocket client: its connection and endpoint
  active_connections,  \* ConnectionManager.active_connections
  inbox,        \* per WebSocket client: the messages delivered to it
  bc            \* the call of ConnectionManager.broadcast in progress

vars == <<now, jobs, techs, assignments, pc, pjob, psel, last,
          pending, client, active_connections, inbox, bc>>

\* The state of api.py beyond the three tables.
ext == <<pending, client, active_connections, inbox, bc>>

\* A client that has not connected.
NoClient == [state |-> "new", endpoint |-> "none", tech_id |-> 0]

\* The messages the server sends, by their "type" and the fields the
\* clients tell them apart by.
Message(type, tech_id, data) ==
  [type |-> type, tech_id |-> tech_id, data |-> data]

NoMessage == Message("none", 0, <<>>)

\* No call of broadcast is in progress.
NoBroadcast ==
  [on |-> FALSE, sender |-> 0, message |-> NoMessage, client_type |-> "none",
   used |-> 0, snapshot |-> {}, visited |-> {}, disconnected |-> {}]

\* api.py after import: a clean session (lines 30-33) and a manager
\* without connections (lines 119-123, 151).
ExtInit ==
  /\ pending = {}
  /\ client = [c \in Conns |-> NoClient]
  /\ active_connections = [k \in {"dispatchers", "techs"} |-> {}]
  /\ inbox = [c \in Conns |-> <<>>]
  /\ bc = NoBroadcast

Skills == {"HVAC", "Electrical", "Plumbing"}

\* Rows as DatabaseHelper.create_job stores them: PENDING, submitted now,
\* nothing else set.
NewJob(priority, required_skills, lat, lon, estimated_hours, parts, at) ==
  [ status |-> "PENDING", priority |-> priority,
    required_skills |-> required_skills, lat |-> lat, lon |-> lon,
    estimated_hours |-> estimated_hours, parts |-> parts,
    submitted_at |-> at, assigned_at |-> None, started_at |-> None,
    completed_at |-> None, actual_hours |-> None, sla_met |-> "null" ]

\* The job requests the intake can submit: (priority, skills, lat, lon,
\* estimated hours, required parts as <<sku, quantity>> pairs).
JobRequests ==
  { <<"ROUTINE",  {"HVAC"}, 1, 1, 2, {}>>,
    <<"CRITICAL", {"HVAC"}, 2, 1, 1, {<<"filter", 1>>}>> }

JobOf(r, at) == NewJob(r[1], r[2], r[3], r[4], r[5], r[6], at)

\* Rows of the technicians table.  Technician.free_at defaults to the
\* time of creation (models.py), active defaults to True.
NewTech(skill_levels, lat, lon, inventory, billable_hours, at) ==
  [ active |-> TRUE, free_at |-> at,
    current_lat |-> lat, current_lon |-> lon,
    skills |-> DOMAIN skill_levels, skill_levels |-> skill_levels,
    inventory |-> inventory, billable_hours |-> billable_hours ]

NoLevels == [s \in {} |-> 0]

\* The skill levels of the two technicians of test_assignment_engine.py.
AliceLevels == [s \in {"HVAC", "Plumbing"} |-> IF s = "HVAC" THEN 5 ELSE 3]
BobLevels == [s \in {"HVAC", "Electrical"} |-> IF s = "HVAC" THEN 2 ELSE 5]

\* Technician t of the store: Alice and Bob at the same place, every
\* further technician a plumber without a recorded location.
TechSeed(t) ==
  IF t = 1 THEN NewTech(AliceLevels, 1, 1, [k \in {"filter"} |-> 2], 0, 0)
  ELSE IF t = 2 THEN NewTech(BobLevels, 1, 1, NoLevels, 4, 0)
  ELSE NewTech([s \in {"Plumbing"} |-> 3], None, None, NoLevels, 0, 0)

NoSel == [tech |-> 0, score |-> 0, breakdown |-> <<>>, lat |-> None, lon |-> None]
NoCall == [op |-> "none", job |-> 0, result |-> "none", response |-> 0]

\* A call of operation op on job j: what the helper returned ("ok" an
\* entity, "none" None, "raised" an exception) and the HTTP status of the
\* handler that made the call (0: called without a handler).
Call(op, j, result, response) ==
  [op |-> op, job |-> j, result |-> result, response |-> response]

\* A store filled only through create_job / create_technician.
Init ==
  /\ now = 0
  /\ jobs \in [JobIds -> {JobOf(r, 0) : r \in JobRequests}]
  /\ techs = [t \in TechIds |-> TechSeed(t)]
  /\ assignments = {}
  /\ pc = [p \in Procs |-> "idle"]
  /\ pjob = [p \in Procs |-> 0]
  /\ psel = [p \in Procs |-> NoSel]
  /\ last = NoCall
  /\ ExtInit

\* --------------------------------------------------------- scoring engine
FactorOne == 6000

RECURSIVE SumOver(_, _)
SumOver(S, f) ==
  IF S = {} THEN 0
  ELSE LET x == CHOOSE y \in S : TRUE IN f[x] + SumOver(S \ {x}, f)

Min(a, b) == IF a < b THEN a ELSE b
Max(a, b) == IF a > b THEN a ELSE b

weights == [skill |-> 35, utilization |-> 25, geography |-> 20,
            parts |-> 15, customer |-> 5]

\* The mutant of priority_multipliers: EMERGENCY weighs as URGENT does.
priority_multipliers_Flat ==
  [CRITICAL |-> 20, EMERGENCY |-> 12, URGENT |-> 12, ROUTINE |-> 10, HIGH |-> 11]

priority_multipliers ==
  [CRITICAL |-> 20, EMERGENCY |-> 15, URGENT |-> 12, ROUTINE |-> 10, HIGH |-> 11]

\* The mutant of _score_skill_match: a missing skill counts as level 0 in
\* the mean instead of disqualifying.
_score_skill_match_Partial(tech, job) ==
  LET required == job.required_skills
      tech_skills == tech.skill_levels
      n == Cardinality(required)
  IN IF n = 0 THEN FactorOne
     ELSE SumOver(required,
                  [s \in required |->
                     IF s \in DOMAIN tech_skills
                     THEN tech_skills[s] * (FactorOne \div 5) ELSE 0]) \div n

\* The mutant of _score_skill_match: no bonus on CRITICAL / EMERGENCY jobs.
_score_skill_match_NoBonus(tech, job) ==
  LET required == job.required_skills
      tech_skills == tech.skill_levels
      n == Cardinality(required)
  IN IF n = 0 THEN FactorOne
     ELSE IF \E s \in required : s \notin DOMAIN tech_skills THEN 0
     ELSE SumOver(required, [s \in required |-> tech_skills[s] * (FactorOne \div 5)]) \div n

\* AssignmentEngine._score_skill_match
_score_skill_match(tech, job) ==
  LET required == job.required_skills
      tech_skills == tech.skill_levels
      n == Cardinality(required)
  IN IF n = 0 THEN FactorOne
     ELSE IF \E s \in required : s \notin DOMAIN tech_skills THEN 0
     ELSE LET total == SumOver(required, [s \in required |-> tech_skills[s] * (FactorOne \div 5)])
              avg_score == total \div n
          IN IF job.priority \in {"CRITICAL", "EMERGENCY"} /\ avg_score * 10 > FactorOne * 8
             THEN Min(FactorOne, (avg_score * 11) \div 10)
             ELSE avg_score

TargetHours == 6
OverageSpan == 3

\* AssignmentEngine._score_utilization
_score_utilization(tech, job) ==
  LET projected_hours == tech.billable_hours + job.estimated_hours
      score == IF projected_hours <= TargetHours
               THEN FactorOne - (Abs(projected_hours - TargetHours) * FactorOne) \div TargetHours
               ELSE Max(0, FactorOne - ((projected_hours - TargetHours) * FactorOne) \div OverageSpan)
  IN Max(0, Min(FactorOne, score))

\* Plain-distance tiers of _score_geography.
DistanceTier(d) ==
  IF d < 5 THEN FactorOne
  ELSE IF d < 15 THEN (FactorOne * 8) \div 10
  ELSE IF d < 30 THEN (FactorOne * 5) \div 10
  ELSE (FactorOne * 2) \div 10

\* Detour tiers of _score_geography.
DetourTier(d) ==
  IF d < 5 THEN FactorOne
  ELSE IF d < 15 THEN (FactorOne * 7) \div 10
  ELSE (FactorOne * 3) \div 10

\* self.db.query(Job).filter(Job.id != job.id).first(): the first other row
\* of the jobs table, 0 when there is none.
NextJobId(store, j) ==
  IF \E k \in DOMAIN store : k # j
  THEN CHOOSE k \in DOMAIN store : k # j /\ \A m \in DOMAIN store : m # j => k <= m
  ELSE 0

\* AssignmentEngine._score_geography
_score_geography(store, tech, j) ==
  LET job == store[j]
      tech_lat == tech.current_lat
      tech_lon == tech.current_lon
      job_lat == OrZero(job.lat)
      job_lon == OrZero(job.lon)
  IN IF tech_lat = None \/ tech_lat = 0 \/ tech_lon = None \/ tech_lon = 0
     THEN FactorOne \div 2
     ELSE LET distance_to_job == GreatCircle(tech_lat, tech_lon, job_lat, job_lon)
              n == NextJobId(store, j)
          IN IF n # 0 /\ store[n].lat # None /\ store[n].lon # None
             THEN LET route_with_job == distance_to_job
                        + GreatCircle(job_lat, job_lon, store[n].lat, store[n].lon)
                      direct_to_next == GreatCircle(tech_lat, tech_lon, store[n].lat, store[n].lon)
                  IN DetourTier(route_with_job - direct_to_next)
             ELSE DistanceTier(distance_to_job)

\* The mutant of _score_parts_availability: carrying the SKU is enough,
\* whatever the quantity.
_score_parts_availability_AnyQuantity(tech, job) ==
  LET required_parts == job.parts
      available == {part \in required_parts : part[1] \in DOMAIN tech.inventory}
  IN IF required_parts = {} THEN FactorOne
     ELSE (Cardinality(available) * FactorOne) \div Cardinality(required_parts)

\* AssignmentEngine._score_parts_availability
_score_parts_availability(tech, job) ==
  LET required_parts == job.parts
      available == {part \in required_parts :
                      /\ part[1] \in DOMAIN tech.inventory
                      /\ tech.inventory[part[1]] >= part[2]}
  IN IF required_parts = {} THEN FactorOne
     ELSE (Cardinality(available) * FactorOne) \div Cardinality(required_parts)

\* AssignmentEngine._score_customer_preference
_score_customer_preference(tech, job) == FactorOne \div 2

\* The mutant of calculate_assignment_score: the priority multiplier is
\* recorded but not applied.
calculate_assignment_score_Unscaled(store, tech, j) ==
  LET job == store[j]
      b == [ skill |-> _score_skill_match(tech, job),
             utilization |-> _score_utilization(tech, job),
             geography |-> _score_geography(store, tech, j),
             parts |-> _score_parts_availability(tech, job),
             customer |-> _score_customer_preference(tech, job) ]
      total == SumOver(DOMAIN weights, [f \in DOMAIN weights |-> b[f] * weights[f]])
  IN b @@ [priority_multiplier |-> priority_multipliers[job.priority],
           final_score |-> total * 10]

\* AssignmentEngine.calculate_assignment_score: the breakdown, with the
\* total under final_score.
calculate_assignment_score(store, tech, j) ==
  LET job == store[j]
      b == [ skill |-> _score_skill_match(tech, job),
             utilization |-> _score_utilization(tech, job),
             geography |-> _score_geography(store, tech, j),
             parts |-> _score_parts_availability(tech, job),
             customer |-> _score_customer_preference(tech, job) ]
      total == SumOver(DOMAIN weights, [f \in DOMAIN weights |-> b[f] * weights[f]])
      priority_multiplier == priority_multipliers[job.priority]
  IN b @@ [priority_multiplier |-> priority_multiplier,
           final_score |-> total * priority_multiplier]

\* --------------------------------------------------- best-candidate selector
\* DatabaseHelper.get_available_technicians, in the order of the query
\* (technician id ascending).
get_available_technicians(tt, at) ==
  SelectSeq([i \in 1..NumTechs |-> i],
            LAMBDA t : tt[t].active /\ (tt[t].free_at = None \/ tt[t].free_at <= at))

NoResult == [tech |-> 0, score |-> -1, breakdown |-> <<>>]

\* The mutant of BestFrom: a zero skill factor does not exclude a candidate.
RECURSIVE BestFrom_NoSkillFilter(_, _, _, _, _, _)
BestFrom_NoSkillFilter(js, tt, job_id, pool, i, best) ==
  IF i > Len(pool) THEN best
  ELSE LET tech == pool[i]
           breakdown == calculate_assignment_score(js, tt[tech], job_id)
           score == breakdown.final_score
       IN IF score > best.score
          THEN BestFrom_NoSkillFilter(js, tt, job_id, pool, i + 1,
                        [tech |-> tech, score |-> score, breakdown |-> breakdown])
          ELSE BestFrom_NoSkillFilter(js, tt, job_id, pool, i + 1, best)

\* The mutant of BestFrom: a candidate that equals the best score so far
\* replaces it.
RECURSIVE BestFrom_LastWins(_, _, _, _, _, _)
BestFrom_LastWins(js, tt, job_id, pool, i, best) ==
  IF i > Len(pool) THEN best
  ELSE LET tech == pool[i]
           breakdown == calculate_assignment_score(js, tt[tech], job_id)
           score == breakdown.final_score
       IN IF breakdown.skill = 0
          THEN BestFrom_LastWins(js, tt, job_id, pool, i + 1, best)
          ELSE IF score >= best.score
          THEN BestFrom_LastWins(js, tt, job_id, pool, i + 1,
                        [tech |-> tech, score |-> score, breakdown |-> breakdown])
          ELSE BestFrom_LastWins(js, tt, job_id, pool, i + 1, best)

\* The scoring loop of find_best_technician over pool[i..], best so far
\* in `best`.
RECURSIVE BestFrom(_, _, _, _, _, _)
BestFrom(js, tt, job_id, pool, i, best) ==
  IF i > Len(pool) THEN best
  ELSE LET tech == pool[i]
           breakdown == calculate_assignment_score(js, tt[tech], job_id)
           score == breakdown.final_score
       IN IF breakdown.skill = 0
          THEN BestFrom(js, tt, job_id, pool, i + 1, best)
          ELSE IF score > best.score
          THEN BestFrom(js, tt, job_id, pool, i + 1,
                        [tech |-> tech, score |-> score, breakdown |-> breakdown])
          ELSE BestFrom(js, tt, job_id, pool, i + 1, best)

\* AssignmentEngine.find_best_technician; available_techs = <<>> stands for
\* both None and the empty list (`if not available_techs`).
find_best_technician(js, tt, at, job_id, available_techs) ==
  IF job_id \notin DOMAIN js THEN NoResult
  ELSE LET pool == IF available_techs = <<>>
                   THEN get_available_technicians(tt, at)
                   ELSE available_techs
       IN IF pool = <<>> THEN NoResult
          ELSE BestFrom(js, tt, job_id, pool, 1, NoResult)

\* ------------------------------------------------------------ HTTP handlers
\* api.auto_assign_job: None from the helper is answered 400; after a
\* success the handler reads job.estimated_arrival, which Job does not
\* have, and the request ends in an unhandled AttributeError (500).
api_auto_assign_job(result) == IF result = "none" THEN 400 ELSE 500

\* api.start_job: an exception of the helper propagates (500); None from
\* the helper is dereferenced (job.priority) and a returned job is asked
\* for job.assigned_to, which Job does not have: AttributeError (500).
api_start_job(result) == 500

\* api.complete_job: as api.start_job, every path ends in an unhandled
\* exception (500).
api_complete_job(result) == 500

\* ------------------------------------------------------ assignment transaction
\* The mutant of IsAssignable: the status is not looked at.
IsAssignable_AnyStatus(js, j) == j \in DOMAIN js

\* auto_assign_job, line 344: `not job or job.status != JobStatus.PENDING`
\* negated.
IsAssignable(js, j) == j \in DOMAIN js /\ js[j].status = "PENDING"

\* auto_assign_job, lines 343-345: load the job, give up unless PENDING.
AutoAssignRead(p, j) ==
  /\ pc[p] = "idle"
  /\ IF ~IsAssignable(jobs, j)
     THEN /\ last' = Call("auto_assign", j, "none", api_auto_assign_job("none"))
          /\ UNCHANGED <<pc, pjob>>
     ELSE /\ pc' = [pc EXCEPT ![p] = "select"]
          /\ pjob' = [pjob EXCEPT ![p] = j]
          /\ UNCHANGED last
  /\ UNCHANGED <<now, jobs, techs, assignments, psel>>
  /\ UNCHANGED ext

\* auto_assign_job, lines 348-355: the engine's queries against the store
\* as it is now.
AutoAssignSelect(p) ==
  /\ pc[p] = "select"
  /\ LET result == find_best_technician(jobs, techs, now, pjob[p], <<>>)
     IN IF result.tech = 0
        THEN /\ last' = Call("auto_assign", pjob[p], "none", api_auto_assign_job("none"))
             /\ pc' = [pc EXCEPT ![p] = "idle"]
             /\ pjob' = [pjob EXCEPT ![p] = 0]
             /\ UNCHANGED psel
        ELSE /\ psel' = [psel EXCEPT ![p] =
                          [tech |-> result.tech, score |-> result.score,
                           breakdown |-> result.breakdown,
                           lat |-> techs[result.tech].current_lat,
                           lon |-> techs[result.tech].current_lon]]
             /\ pc' = [pc EXCEPT ![p] = "commit"]
             /\ UNCHANGED <<pjob, last>>
  /\ UNCHANGED <<now, jobs, techs, assignments>>
  /\ UNCHANGED ext

\* The explicit candidate pools a caller of find_best_technician can pass:
\* the technicians of the store in any order, without repetition.
Pools ==
  {<<>>} \cup {<<t>> : t \in TechIds}
         \cup {q \in TechIds \X TechIds : q[1] # q[2]}

\* A direct call of AssignmentEngine.find_best_technician, as in
\* test_assignment_engine.py: what it returned is kept in psel.
FindBest(p, job_id, available_techs) ==
  /\ pc[p] = "idle"
  /\ LET result == find_best_technician(jobs, techs, now, job_id, available_techs)
     IN IF result.tech = 0
        THEN /\ psel' = [psel EXCEPT ![p] = NoSel]
             /\ last' = Call("find_best_technician", job_id, "none", 0)
        ELSE /\ psel' = [psel EXCEPT ![p] =
                          [tech |-> result.tech, score |-> result.score,
                           breakdown |-> result.breakdown,
                           lat |-> techs[result.tech].current_lat,
                           lon |-> techs[result.tech].current_lon]]
             /\ last' = Call("find_best_technician", job_id, "ok", 0)
  /\ UNCHANGED <<now, jobs, techs, assignments, pc, pjob>>
  /\ UNCHANGED ext

\* The unique constraint uix_job_tech of the assignments table.
UniqueViolation(rows, job_id, tech_id) ==
  \E a \in rows : a.job_id = job_id /\ a.tech_id = tech_id

\* auto_assign_job, lines 357-396: the Assignment row, the writes to the
\* job and the technician loaded earlier, and the commit; an IntegrityError
\* of the commit is caught, rolled back and answered None.
AutoAssignCommit(p) ==
  /\ pc[p] = "commit"
  /\ LET j == pjob[p]
         job == jobs[j]
         best_tech == psel[p]
         distance == haversine(OrZero(job.lat), OrZero(job.lon),
                               OrZero(best_tech.lat), OrZero(best_tech.lon))
         travel == TravelMinutes(distance)
         assignment == [job_id |-> j, tech_id |-> best_tech.tech,
                        distance_miles |-> distance, travel_time |-> travel,
                        match_score |-> best_tech.score, assigned_at |-> now]
     IN IF UniqueViolation(assignments, j, best_tech.tech)
        THEN /\ last' = Call("auto_assign", j, "none", api_auto_assign_job("none"))
             /\ UNCHANGED <<jobs, techs, assignments>>
        ELSE /\ jobs' = [jobs EXCEPT ![j].status = "ASSIGNED"]
             /\ techs' = [techs EXCEPT ![best_tech.tech].free_at =
                            now + travel + OrZero(job.estimated_hours) * 60]
             /\ assignments' = assignments \cup {assignment}
             /\ last' = Call("auto_assign", j, "ok",
                             api_auto_assign_job("ok"))
  /\ pc' = [pc EXCEPT ![p] = "idle"]
  /\ pjob' = [pjob EXCEPT ![p] = 0]
  /\ psel' = [psel EXCEPT ![p] = NoSel]
  /\ UNCHANGED now
  /\ UNCHANGED ext

\* The session api.py opens at import and every handler shares.
ApiSession == 1

\* match_score = 0.5 of _simple_assign_job, in the unit of final_score
\* (factor x weight in hundredths x multiplier in tenths).
DefaultScore == (FactorOne * 100 * 10) \div 2

\* DatabaseHelper._simple_assign_job, the path auto_assign_job takes when
\* the engine cannot be imported: the first available technician whose
\* skills list contains the job's required skills.  The outcome and the
\* three tables afterwards.
_simple_assign_job(js, tt, rows, job_id, at) ==
  LET unchanged == [result |-> "none", tech |-> 0,
                    jobs |-> js, techs |-> tt, assignments |-> rows]
  IN IF ~IsAssignable(js, job_id) THEN unchanged
     ELSE LET job == js[job_id]
              available_techs == get_available_technicians(tt, at)
              matching == SelectSeq(available_techs,
                            LAMBDA t : job.required_skills \subseteq tt[t].skills)
          IN IF matching = <<>> THEN unchanged
             ELSE LET tech == Head(matching)
                      distance == haversine(OrZero(job.lat), OrZero(job.lon),
                                            OrZero(tt[tech].current_lat),
                                            OrZero(tt[tech].current_lon))
                      travel == TravelMinutes(distance)
                      assignment == [job_id |-> job_id, tech_id |-> tech,
                                     distance_miles |-> distance, travel_time |-> travel,
                                     match_score |-> DefaultScore, assigned_at |-> at]
                  IN IF UniqueViolation(rows, job_id, tech) THEN unchanged
                     ELSE [result |-> "ok", tech |-> tech,
                           jobs |-> [js EXCEPT ![job_id].status = "ASSIGNED"],
                           techs |-> [tt EXCEPT ![tech].free_at =
                                        at + travel + OrZero(job.estimated_hours) * 60],
                           assignments |-> rows \cup {assignment}]

\* POST /jobs/{job_id}/auto-assign when the import of the engine fails.
SimpleAssignJob(j) ==
  /\ pc[ApiSession] = "idle"
  /\ LET r == _simple_assign_job(jobs, techs, assignments, j, now)
     IN /\ jobs' = r.jobs
        /\ techs' = r.techs
        /\ assignments' = r.assignments
        /\ last' = Call("auto_assign", j, r.result, api_auto_assign_job(r.result))
  /\ UNCHANGED <<now, pc, pjob, psel>>
  /\ UNCHANGED ext

\* ------------------------------------------------------------- job lifecycle
sla_windows ==
  [CRITICAL |-> 1, EMERGENCY |-> 2, URGENT |-> 8, HIGH |-> 4, ROUTINE |-> 24]

\* start_job, lines 247-259, on the job object as start_job has changed it.
SlaMet(job) ==
  LET response_minutes == job.started_at - job.submitted_at
  IN IF response_minutes <= sla_windows[job.priority] * 60 THEN "true" ELSE "false"

\* DatabaseHelper.start_job: the outcome and the jobs table afterwards.
\* On an ASSIGNED job the method writes assigned_at, not started_at, and
\* then subtracts submitted_at from job.started_at, which nothing has set:
\* the exception is caught, the session rolled back, the exception re-raised.
start_job(js, j, at) ==
  IF j \notin DOMAIN js THEN [result |-> "none", jobs |-> js]
  ELSE IF js[j].status # "ASSIGNED" THEN [result |-> "none", jobs |-> js]
  ELSE LET job == [js[j] EXCEPT !.status = "IN_PROGRESS", !.assigned_at = at]
       IN IF job.submitted_at # None
          THEN IF job.started_at = None
               THEN [result |-> "raised", jobs |-> js]
               ELSE [result |-> "ok",
                     jobs |-> [js EXCEPT ![j] = [job EXCEPT !.sla_met = SlaMet(job)]]]
          ELSE [result |-> "ok", jobs |-> [js EXCEPT ![j] = job]]

\* PUT /jobs/{job_id}/start
StartJob(j) ==
  /\ LET r == start_job(jobs, j, now)
     IN /\ jobs' = r.jobs
        /\ last' = Call("start", j, r.result, api_start_job(r.result))
  /\ UNCHANGED <<now, techs, assignments, pc, pjob, psel>>
  /\ UNCHANGED ext

\* The mutant of DatabaseHelperMethods: the class also defines the lookup
\* complete_job and cancel_job call.
DatabaseHelperMethods_WithLookup ==
  {"get_job", "get_technician", "get_available_technicians", "get_assignment_by_job"}

\* The methods class DatabaseHelper defines that the lifecycle calls on self.
DatabaseHelperMethods == {"get_job", "get_technician", "get_available_technicians"}

\* complete_job, lines 286-291, and cancel_job, lines 311-316: the
\* technician of the job's Assignment row, if there is a row, is free from
\* now on.
FreeAssignee(tt, rows, j, at) ==
  IF \E a \in rows : a.job_id = j
  THEN LET assignment == CHOOSE a \in rows : a.job_id = j
       IN [tt EXCEPT ![assignment.tech_id].free_at = at]
  ELSE tt

\* DatabaseHelper.complete_job.  On an IN_PROGRESS job the method calls
\* self.get_assignment_by_job, which the class does not define: the
\* AttributeError is caught, the session rolled back, the exception re-raised.
complete_job(js, tt, rows, j, actual_hours, at) ==
  IF j \notin DOMAIN js THEN [result |-> "none", jobs |-> js, techs |-> tt]
  ELSE IF js[j].status # "IN_PROGRESS" THEN [result |-> "none", jobs |-> js, techs |-> tt]
  ELSE LET job == [js[j] EXCEPT !.status = "COMPLETED", !.completed_at = at,
                                !.actual_hours = actual_hours]
       IN IF "get_assignment_by_job" \notin DatabaseHelperMethods
          THEN [result |-> "raised", jobs |-> js, techs |-> tt]
          ELSE [result |-> "ok", jobs |-> [js EXCEPT ![j] = job],
                techs |-> FreeAssignee(tt, rows, j, at)]

\* PUT /jobs/{job_id}/complete
CompleteJob(j, actual_hours) ==
  /\ LET r == complete_job(jobs, techs, assignments, j, actual_hours, now)
     IN /\ jobs' = r.jobs
        /\ techs' = r.techs
        /\ last' = Call("complete", j, r.result, api_complete_job(r.result))
  /\ UNCHANGED <<now, assignments, pc, pjob, psel>>
  /\ UNCHANGED ext

\* DatabaseHelper.cancel_job.  No check of the status; the method calls
\* self.get_assignment_by_job, which the class does not define: the
\* AttributeError is caught, the session rolled back, the exception re-raised.
cancel_job(js, tt, rows, j, at) ==
  IF j \notin DOMAIN js THEN [result |-> "none", jobs |-> js, techs |-> tt]
  ELSE LET job == [js[j] EXCEPT !.status = "CANCELLED"]
       IN IF "get_assignment_by_job" \notin DatabaseHelperMethods
          THEN [result |-> "raised", jobs |-> js, techs |-> tt]
          ELSE [result |-> "ok", jobs |-> [js EXCEPT ![j] = job],
                techs |-> FreeAssignee(tt, rows, j, at)]

\* cancel_job has no HTTP handler: a direct call of the helper.
CancelJob(j) ==
  /\ LET r == cancel_job(jobs, techs, assignments, j, now)
     IN /\ jobs' = r.jobs
        /\ techs' = r.techs
        /\ last' = Call("cancel", j, r.result, 0)
  /\ UNCHANGED <<now, assignments, pc, pjob, psel>>
  /\ UNCHANGED ext

\* The positions a technician's device reports (lat, lon).
Locations == {<<1, 1>>, <<3, 1>>}

MissingTech == 0
TechArgs == TechIds \cup {MissingTech}

\* DatabaseHelper.update_tech_location: the outcome ("ok" for True, "none"
\* for False) and the technicians table afterwards.
update_tech_location(tt, tech_id, lat, lon) ==
  IF tech_id \in DOMAIN tt
  THEN [result |-> "ok",
        techs |-> [tt EXCEPT ![tech_id].current_lat = lat,
                             ![tech_id].current_lon = lon]]
  ELSE [result |-> "none", techs |-> tt]

\* A direct call of update_tech_location.
UpdateTechLocation(tech_id, lat, lon) ==
  /\ LET r == update_tech_location(techs, tech_id, lat, lon)
     IN /\ techs' = r.techs
        /\ last' = Call("update_tech_location", 0, r.result, 0)
  /\ UNCHANGED <<now, jobs, assignments, pc, pjob, psel>>
  /\ UNCHANGED ext

\* The clock moves on.
Tick ==
  /\ \E h \in ClockHours : h * 60 > now /\ now' = h * 60
  /\ UNCHANGED <<jobs, techs, assignments, pc, pjob, psel, last>>
  /\ UNCHANGED ext

JobArgs == JobIds \cup {MissingJob}
ActualHours == {1, 3}

Next ==
  \/ \E p \in Procs, j \in JobArgs : AutoAssignRead(p, j)
  \/ \E p \in Procs : AutoAssignSelect(p)
  \/ \E p \in Procs : AutoAssignCommit(p)
  \/ \E j \in JobArgs : StartJob(j)
  \/ \E j \in JobArgs, h \in ActualHours : CompleteJob(j, h)
  \/ \E j \in JobArgs : CancelJob(j)
  \/ Tick

Spec == Init /\ [][Next]_vars

\* ------------------------------------------- a store with a history
\* The technician a stored job was given to.
StoredTechOf(j) == ((j - 1) % NumTechs) + 1

WasAssigned(status) == status \in {"ASSIGNED", "IN_PROGRESS", "COMPLETED"}
WasStarted(status) == status \in {"IN_PROGRESS", "COMPLETED"}

\* A row of the jobs table in any of the states of JobStatus, with the
\* fields of the earlier transitions filled in (all of them at time 0); a
\* CANCELLED row was cancelled while PENDING.
StoredJob(r, status) ==
  [ JobOf(r, 0) EXCEPT
      !.status = status,
      !.assigned_at = IF WasAssigned(status) THEN 0 ELSE None,
      !.started_at = IF WasStarted(status) THEN 0 ELSE None,
      !.sla_met = IF WasStarted(status) THEN "true" ELSE "null",
      !.completed_at = IF status = "COMPLETED" THEN 0 ELSE None,
      !.actual_hours = IF status = "COMPLETED" THEN r[5] ELSE None ]

StoredAssignment(js, j) ==
  LET t == TechSeed(StoredTechOf(j))
      distance == haversine(OrZero(js[j].lat), OrZero(js[j].lon),
                            OrZero(t.current_lat), OrZero(t.current_lon))
  IN [job_id |-> j, tech_id |-> StoredTechOf(j), distance_miles |-> distance,
      travel_time |-> TravelMinutes(distance), match_score |-> 0, assigned_at |-> 0]

\* Until when technician t is reserved by the stored jobs still open.
StoredFreeAt(js, t) ==
  LET open == {j \in JobIds : StoredTechOf(j) = t
                              /\ js[j].status \in {"ASSIGNED", "IN_PROGRESS"}}
      until == [j \in open |-> StoredAssignment(js, j).travel_time
                               + js[j].estimated_hours * 60]
  IN IF open = {} THEN 0
     ELSE CHOOSE m \in {until[j] : j \in open} : \A j \in open : until[j] <= m

\* The store as an earlier run left it: jobs in any status of models.py.
InitStore ==
  /\ now = 0
  /\ jobs \in [JobIds -> {StoredJob(r, st) : r \in JobRequests, st \in JobStatus}]
  /\ techs = [t \in TechIds |-> [TechSeed(t) EXCEPT !.free_at = StoredFreeAt(jobs, t)]]
  /\ assignments = {StoredAssignment(jobs, j) : j \in {k \in JobIds : WasAssigned(jobs[k].status)}}
  /\ pc = [p \in Procs |-> "idle"]
  /\ pjob = [p \in Procs |-> 0]
  /\ psel = [p \in Procs |-> NoSel]
  /\ last = NoCall
  /\ ExtInit

SpecStore == InitStore /\ [][Next]_vars

\* ------------------------------------ one session, every kind of request
\* Requests for skills that only some, or none, of the technicians hold.
SkillRequests ==
  JobRequests \cup
    { <<"URGENT", {"Electrical"}, 1, 2, 5, {}>>,
      <<"HIGH", {"Electrical", "Plumbing"}, 2, 2, 1, {}>> }

InitSeq ==
  /\ now = 0
  /\ jobs \in [JobIds -> {JobOf(r, 0) : r \in SkillRequests}]
  /\ techs = [t \in TechIds |-> TechSeed(t)]
  /\ assignments = {}
  /\ pc = [p \in Procs |-> "idle"]
  /\ pjob = [p \in Procs |-> 0]
  /\ psel = [p \in Procs |-> NoSel]
  /\ last = NoCall
  /\ ExtInit

\* The operations of DatabaseHelper called one after the other through
\* that session.
NextSeq ==
  \/ \E j \in JobArgs : AutoAssignRead(ApiSession, j)
  \/ AutoAssignSelect(ApiSession)
  \/ AutoAssignCommit(ApiSession)
  \/ \E j \in JobArgs : SimpleAssignJob(j)
  \/ \E j \in JobArgs : StartJob(j)
  \/ \E j \in JobArgs, h \in ActualHours : CompleteJob(j, h)
  \/ \E j \in JobArgs : CancelJob(j)
  \/ \E t \in TechArgs, l \in Locations : UpdateTechLocation(t, l[1], l[2])
  \/ Tick

SpecSeq == InitSeq /\ [][NextSeq]_vars

\* Only the assignment requests of that session, and the clock.
NextAssign ==
  \/ \E j \in JobArgs : AutoAssignRead(ApiSession, j)
  \/ AutoAssignSelect(ApiSession)
  \/ AutoAssignCommit(ApiSession)
  \/ \E j \in JobArgs : SimpleAssignJob(j)
  \/ Tick

SpecAssign == InitSeq /\ [][NextAssign]_vars

\* ------------------------------------------- the engine on a varied store
\* Technicians as rows of the store can be: with skill levels (T, U), with
\* a skills list only, as create_technician leaves them (NamesOnly), at
\* latitude 0 (AtZero), without a location (NoLocation), inactive.
TechT == NewTech([s \in {"HVAC"} |-> 5], 1, 1, [k \in {"filter"} |-> 2], 0, 0)
TechU == NewTech([s \in {"HVAC"} |-> 2], 1, 1, [k \in {"filter"} |-> 2], 0, 0)
TechNamesOnly ==
  [NewTech(NoLevels, 1, 1, NoLevels, 0, 0) EXCEPT !.skills = {"HVAC", "Electrical"}]
TechAtZero ==
  NewTech([s \in {"HVAC", "Electrical"} |-> IF s = "HVAC" THEN 5 ELSE 4],
          0, 1, [k \in {"filter"} |-> 1], 4, 0)
TechNoLocation == NewTech([s \in {"HVAC"} |-> 4], None, None, NoLevels, 0, 0)
TechInactive == [TechT EXCEPT !.active = FALSE]

TechProfiles ==
  {TechT, TechU, TechNamesOnly, TechAtZero, TechNoLocation, TechInactive}

\* Job requests: the ROUTINE HVAC job next to T and U, a CRITICAL job with
\* two required skills and two required parts, a far EMERGENCY job without
\* required skills, and a job without coordinates.
ScoreRequests ==
  { <<"ROUTINE",   {"HVAC"}, 1, 1, 2, {}>>,
    <<"CRITICAL",  {"HVAC", "Electrical"}, 2, 1, 1, {<<"filter", 1>>, <<"valve", 1>>}>>,
    <<"EMERGENCY", {}, 5, 5, 8, {<<"filter", 2>>}>>,
    <<"URGENT",    {"HVAC"}, None, None, 1, {}>> }

\* The requests behind the other rows of the jobs table: one with and one
\* without coordinates.
OtherRequests == {r \in ScoreRequests : r[1] \in {"ROUTINE", "URGENT"}}

\* The job the engine is asked about, and a job id that does not exist.
ScoredJob == 1
ScoreArgs == {ScoredJob, MissingJob}

InitScore ==
  /\ now = 0
  /\ \E r \in ScoreRequests, o \in [JobIds -> OtherRequests] :
       jobs = [j \in JobIds |-> IF j = ScoredJob THEN JobOf(r, 0) ELSE JobOf(o[j], 0)]
  /\ techs \in [TechIds -> TechProfiles]
  /\ assignments = {}
  /\ pc = [p \in Procs |-> "idle"]
  /\ pjob = [p \in Procs |-> 0]
  /\ psel = [p \in Procs |-> NoSel]
  /\ last = NoCall
  /\ ExtInit

\* The engine called directly, with and without an explicit pool.
NextScore ==
  \E j \in ScoreArgs, pool \in Pools : FindBest(ApiSession, j, pool)

SpecScore == InitScore /\ [][NextScore]_vars

\* ------------------------------------------------------------- WebSockets
\* The longest inbox a client is followed to.
MaxInbox == 3

\* WebSocket.send_json as the sender sees it: it raises unless the
\* connection is open.
SendFails(cl, conn) == cl[conn].state # "open"

\* The mutant of send_personal_message: the message goes to every open
\* connection.
send_personal_message_ToAll(ib, cl, message, websocket) ==
  [c \in Conns |-> IF cl[c].state = "open" THEN Append(ib[c], message) ELSE ib[c]]

\* ConnectionManager.send_personal_message: the inboxes afterwards.
send_personal_message(ib, cl, message, websocket) ==
  [ib EXCEPT ![websocket] = Append(ib[websocket], message)]

\* ConnectionManager.connect: accept, then register under the type.
connect(ac, websocket, client_type) ==
  [ac EXCEPT ![client_type] = ac[client_type] \cup {websocket}]

\* ConnectionManager.disconnect: discard, whether registered or not.
disconnect(ac, websocket, client_type) ==
  [ac EXCEPT ![client_type] = ac[client_type] \ {websocket}]

\* One turn of the loop of ConnectionManager.broadcast, from `for conn in`
\* to the next await: the set iterator raises RuntimeError when the set has
\* changed size since the loop began; at the end of the set the connections
\* whose send failed are disconnected and the call returns; otherwise the
\* message is sent to one more connection.  The outcomes, one per
\* connection the iterator can yield next.
BroadcastTurns(b, ac, cl, ib) ==
  LET current == ac[b.client_type]
      left == current \ b.visited
  IN IF Cardinality(current) # b.used
     THEN {[outcome |-> "raised", bc |-> NoBroadcast, active_connections |-> ac, inbox |-> ib]}
     ELSE (IF left \cap b.snapshot = {}
           THEN {[outcome |-> "returned", bc |-> NoBroadcast,
                  active_connections |->
                    [ac EXCEPT ![b.client_type] = current \ b.disconnected],
                  inbox |-> ib]}
           ELSE {})
          \cup
          {[outcome |-> "sent",
            bc |-> [b EXCEPT !.visited = b.visited \cup {conn},
                             !.disconnected =
                               IF SendFails(cl, conn)
                               THEN b.disconnected \cup {conn} ELSE b.disconnected],
            active_connections |-> ac,
            inbox |-> IF SendFails(cl, conn) THEN ib
                      ELSE [ib EXCEPT ![conn] = Append(ib[conn], b.message)]] :
             conn \in left}

\* ConnectionManager.broadcast up to its first await.
BroadcastFrom(sender, message, client_type, ac) ==
  [on |-> TRUE, sender |-> sender, message |-> message, client_type |-> client_type,
   used |-> Cardinality(ac[client_type]), snapshot |-> ac[client_type],
   visited |-> {}, disconnected |-> {}]

\* /ws/dispatcher, lines 342-349: connect and greet.
ConnectDispatcher(c) ==
  /\ client[c].state = "new"
  /\ client' = [client EXCEPT ![c] = [state |-> "open", endpoint |-> "dispatcher",
                                      tech_id |-> 0]]
  /\ active_connections' = connect(active_connections, c, "dispatchers")
  /\ inbox' = send_personal_message(inbox, client', Message("connected", 0, <<>>), c)
  /\ UNCHANGED <<now, jobs, techs, assignments, pc, pjob, psel, last, pending, bc>>

\* /ws/dispatcher, lines 350-354: a "ping" is received and answered.
Ping(c) ==
  /\ client[c].state = "open"
  /\ client[c].endpoint = "dispatcher"
  /\ Len(inbox[c]) < MaxInbox
  /\ inbox' = send_personal_message(inbox, client, Message("pong", 0, <<>>), c)
  /\ UNCHANGED <<now, jobs, techs, assignments, pc, pjob, psel, last,
                 pending, client, active_connections, bc>>

\* /ws/dispatcher, lines 355-362: a "request_update" is answered with the
\* numbers of pending jobs and of available technicians.
RequestUpdate(c) ==
  /\ client[c].state = "open"
  /\ client[c].endpoint = "dispatcher"
  /\ Len(inbox[c]) < MaxInbox
  /\ inbox' = send_personal_message(inbox, client,
                Message("full_update", 0,
                        <<Cardinality({j \in JobIds : jobs[j].status = "PENDING"}),
                          Len(get_available_technicians(techs, now))>>), c)
  /\ UNCHANGED <<now, jobs, techs, assignments, pc, pjob, psel, last,
                 pending, client, active_connections, bc>>

\* /ws/tech/{tech_id}, lines 371-379: connect and greet; the id is not
\* looked up.
ConnectTech(c, tech_id) ==
  /\ client[c].state = "new"
  /\ client' = [client EXCEPT ![c] = [state |-> "open", endpoint |-> "tech",
                                      tech_id |-> tech_id]]
  /\ active_connections' = connect(active_connections, c, "techs")
  /\ inbox' = send_personal_message(inbox, client', Message("connected", tech_id, <<>>), c)
  /\ UNCHANGED <<now, jobs, techs, assignments, pc, pjob, psel, last, pending, bc>>

\* The writes of the shared session reach the jobs table.
Flushed(js, writes) ==
  [j \in DOMAIN js |->
     IF \E w \in writes : w.job_id = j
     THEN (CHOOSE w \in writes : w.job_id = j).row
     ELSE js[j]]

\* /ws/tech/{tech_id}, lines 383-398: a "location_update" is received.  For
\* a stored technician the handler sets tech.current_latitude and
\* tech.current_longitude, which are not columns of Technician (the columns
\* are current_lat and current_lon), commits the shared session and
\* broadcasts to the dispatchers; the call of broadcast runs to its first
\* await.  For an unknown id nothing happens.
LocationUpdate(c, lat, lon) ==
  /\ client[c].state = "open"
  /\ client[c].endpoint = "tech"
  /\ ~bc.on
  /\ \A d \in Conns : Len(inbox[d]) < MaxInbox
  /\ IF client[c].tech_id \notin TechIds
     THEN UNCHANGED <<jobs, pending, client, active_connections, inbox, bc, last>>
     ELSE /\ jobs' = Flushed(jobs, pending)
          /\ pending' = {}
          /\ last' = Call("location_update", 0, "ok", 0)
          /\ \E turn \in BroadcastTurns(
                   BroadcastFrom(c, Message("tech_location_update", client[c].tech_id,
                                            <<lat, lon>>),
                                 "dispatchers", active_connections),
                   active_connections, client, inbox) :
               /\ bc' = turn.bc
               /\ active_connections' = turn.active_connections
               /\ inbox' = turn.inbox
               /\ UNCHANGED client
  /\ UNCHANGED <<now, techs, assignments, pc, pjob, psel>>

\* The call of broadcast in progress resumes after an await.  A
\* RuntimeError leaves broadcast and is caught in websocket_tech (lines
\* 401-403): the sender is disconnected and its handler ends.
BroadcastResume ==
  /\ bc.on
  /\ \E turn \in BroadcastTurns(bc, active_connections, client, inbox) :
       /\ bc' = turn.bc
       /\ inbox' = turn.inbox
       /\ IF turn.outcome = "raised"
          THEN /\ active_connections' = disconnect(turn.active_connections, bc.sender, "techs")
               /\ client' = [client EXCEPT ![bc.sender].state = "closed"]
          ELSE /\ active_connections' = turn.active_connections
               /\ UNCHANGED client
  /\ UNCHANGED <<now, jobs, techs, assignments, pc, pjob, psel, last, pending>>

\* A client goes away: from now on a send to it fails.
Drop(c) ==
  /\ client[c].state = "open"
  /\ client' = [client EXCEPT ![c].state = "gone"]
  /\ UNCHANGED <<now, jobs, techs, assignments, pc, pjob, psel, last,
                 pending, active_connections, inbox, bc>>

\* The handler of a client leaves its loop (lines 363-367, 399-403): on
\* WebSocketDisconnect when the client has gone, on any other exception when
\* what it sent cannot be read as a JSON object.  A handler that waits for
\* broadcast to return is not in its loop.
Disconnect(c) ==
  /\ client[c].state \in {"open", "gone"}
  /\ ~(bc.on /\ bc.sender = c)
  /\ client' = [client EXCEPT ![c].state = "closed"]
  /\ active_connections' =
       disconnect(active_connections, c,
                  IF client[c].endpoint = "tech" THEN "techs" ELSE "dispatchers")
  /\ UNCHANGED <<now, jobs, techs, assignments, pc, pjob, psel, last,
                 pending, inbox, bc>>

\* The WebSocket endpoints over a store that no request changes.
InitWs ==
  /\ now = 0
  /\ jobs = [j \in JobIds |-> JobOf(CHOOSE r \in JobRequests : r[1] = "ROUTINE", 0)]
  /\ techs = [t \in TechIds |-> TechSeed(t)]
  /\ assignments = {}
  /\ pc = [p \in Procs |-> "idle"]
  /\ pjob = [p \in Procs |-> 0]
  /\ psel = [p \in Procs |-> NoSel]
  /\ last = NoCall
  /\ ExtInit

NextWs ==
  \/ \E c \in Conns : ConnectDispatcher(c)
  \/ \E c \in Conns : Ping(c)
  \/ \E c \in Conns : RequestUpdate(c)
  \/ \E c \in Conns, t \in TechArgs : ConnectTech(c, t)
  \/ \E c \in Conns, l \in Locations : LocationUpdate(c, l[1], l[2])
  \/ BroadcastResume
  \/ \E c \in Conns : Drop(c)
  \/ \E c \in Conns : Disconnect(c)

SpecWs == InitWs /\ [][NextWs]_vars

\* ------------------------------- HTTP requests while dispatchers listen
\* The requests of api.py's event loop that change a job, one at a time on
\* the shared session, and dispatcher dashboards connecting and leaving.
\* None of the three handlers reaches its call of manager.broadcast
\* (api_auto_assign_job, api_start_job, api_complete_job).
NextApi ==
  \/ \E j \in JobArgs : AutoAssignRead(ApiSession, j)
  \/ AutoAssignSelect(ApiSession)
  \/ AutoAssignCommit(ApiSession)
  \/ \E j \in JobArgs : StartJob(j)
  \/ \E j \in JobArgs, h \in ActualHours : CompleteJob(j, h)
  \/ \E c \in Conns : ConnectDispatcher(c)
  \/ \E c \in Conns : Drop(c)
  \/ \E c \in Conns : Disconnect(c)

SpecApi == InitStore /\ [][NextApi]_vars

\* ------------------------------------ the shared session and worker threads
\* api.py runs its `async def` handlers (auto-assign, start, complete) on
\* the event loop and its `def` handlers (POST /customers among them) in
\* worker threads; all of them use the one session of lines 30-33.  A
\* commit made by a worker thread writes out whatever the session holds at
\* that moment, the writes of a handler that has not finished included.

\* The status start_job (line 242) and complete_job (line 281) write on the
\* loaded job before they raise; status is the only column of Job among the
\* attributes they assign.
WrittenStatus == [start |-> "IN_PROGRESS", complete |-> "COMPLETED"]

\* What the helper called for op answers, as the call runs undisturbed.
LifecycleResult(op, j, actual_hours) ==
  IF op = "start" THEN start_job(jobs, j, now).result
  ELSE complete_job(jobs, techs, assignments, j, actual_hours, now).result

\* PUT /jobs/{job_id}/start or /complete on the event loop, up to the
\* statement that raises: a call that is going to raise has written the new
\* status on the session's job object; any other call runs to its end.
LifecycleBegin(op, j, actual_hours) ==
  /\ pc[ApiSession] = "idle"
  /\ IF LifecycleResult(op, j, actual_hours) = "raised"
     THEN /\ pending' = pending \cup
                 {[job_id |-> j, row |-> [jobs[j] EXCEPT !.status = WrittenStatus[op]]]}
          /\ pc' = [pc EXCEPT ![ApiSession] = op]
          /\ pjob' = [pjob EXCEPT ![ApiSession] = j]
          /\ UNCHANGED <<jobs, techs, last>>
     ELSE /\ IF op = "start"
             THEN /\ jobs' = start_job(jobs, j, now).jobs
                  /\ UNCHANGED techs
             ELSE LET r == complete_job(jobs, techs, assignments, j, actual_hours, now)
                  IN jobs' = r.jobs /\ techs' = r.techs
          /\ last' = Call(op, j, LifecycleResult(op, j, actual_hours),
                          IF op = "start" THEN api_start_job("none")
                          ELSE api_complete_job("none"))
          /\ UNCHANGED <<pending, pc, pjob>>
  /\ UNCHANGED <<now, assignments, psel, client, active_connections, inbox, bc>>

\* The statement raises: `except Exception: self.db.rollback(); raise`
\* (database.py lines 265-268, 297-300) discards what the session still
\* holds, and the handler answers 500.
LifecycleRaise ==
  /\ pc[ApiSession] \in DOMAIN WrittenStatus
  /\ pending' = {}
  /\ last' = Call(pc[ApiSession], pjob[ApiSession], "raised",
                  IF pc[ApiSession] = "start" THEN api_start_job("raised")
                  ELSE api_complete_job("raised"))
  /\ pc' = [pc EXCEPT ![ApiSession] = "idle"]
  /\ pjob' = [pjob EXCEPT ![ApiSession] = 0]
  /\ UNCHANGED <<now, jobs, techs, assignments, psel,
                 client, active_connections, inbox, bc>>

\* POST /customers in a worker thread: create_customer adds the customer
\* and commits the shared session (database.py lines 60-72).  The customers
\* table is not part of the state.
CreateCustomer ==
  /\ jobs' = Flushed(jobs, pending)
  /\ pending' = {}
  /\ last' = Call("create_customer", 0, "ok", 201)
  /\ UNCHANGED <<now, techs, assignments, pc, pjob, psel,
                 client, active_connections, inbox, bc>>

NextShared ==
  \/ \E j \in JobArgs : AutoAssignRead(ApiSession, j)
  \/ AutoAssignSelect(ApiSession)
  \/ AutoAssignCommit(ApiSession)
  \/ \E op \in DOMAIN WrittenStatus, j \in JobArgs, h \in ActualHours :
       LifecycleBegin(op, j, h)
  \/ LifecycleRaise
  \/ CreateCustomer

SpecShared == InitStore /\ [][NextShared]_vars

\* ------------------------------------------------------------------ claims
Terminal == {"COMPLETED", "CANCELLED"}

AssignmentsOf(j) == {a \in assignments : a.job_id = j}

\* A step in which process p leaves the commit of auto_assign_job.
CommitStep(p) == pc[p] = "commit" /\ pc'[p] = "idle"

\* C1: two concurrent auto-assign attempts on the same PENDING job leave
\* exactly one Assignment: in no reachable state has a job two Assignments.
C1_OneAssignmentPerJob ==
  \A j \in JobIds : Cardinality(AssignmentsOf(j)) <= 1

\* The window of the technician's time an Assignment reserves.
ReservedFrom(a) == a.assigned_at
ReservedUntil(a) == a.assigned_at + a.travel_time + jobs[a.job_id].estimated_hours * 60

\* C2: two auto-assign attempts for different jobs never both reserve the
\* same technician: no two Assignments of one technician have overlapping
\* reserved windows.
C2_NoDoubleReservation ==
  \A a, b \in assignments :
    (a # b /\ a.tech_id = b.tech_id)
      => (ReservedUntil(a) <= ReservedFrom(b) \/ ReservedUntil(b) <= ReservedFrom(a))

LegalEdges ==
  { <<"PENDING", "ASSIGNED">>, <<"ASSIGNED", "IN_PROGRESS">>,
    <<"IN_PROGRESS", "COMPLETED">>, <<"PENDING", "CANCELLED">>,
    <<"ASSIGNED", "CANCELLED">>, <<"IN_PROGRESS", "CANCELLED">> }

\* C3: every change of a job's status follows an edge of the lifecycle, and
\* a COMPLETED or CANCELLED job never changes status again.
C3_LegalTransitions ==
  [][\A j \in JobIds :
       jobs'[j].status # jobs[j].status
         => <<jobs[j].status, jobs'[j].status>> \in LegalEdges]_vars

\* C3 witness: a job went PENDING -> ASSIGNED through auto-assign, and a
\* cancel was called on a job that is COMPLETED or CANCELLED.
C3_Witness ==
  /\ \E a \in assignments : a.match_score > 0 /\ jobs[a.job_id].status = "ASSIGNED"
  /\ last.op = "cancel" /\ last.job \in JobIds
  /\ jobs[last.job].status \in Terminal

\* C4: an assignment attempt that reaches its commit when the job is no
\* longer PENDING is rejected and overwrites nothing.
C4_StaleAttemptWritesNothing ==
  [][\A p \in Procs :
       (CommitStep(p) /\ jobs[pjob[p]].status # "PENDING")
         => /\ jobs' = jobs /\ techs' = techs /\ assignments' = assignments
            /\ last'.result = "none"]_vars

\* C5: a successful assignment of job J to technician T at time now adds
\* exactly one Assignment (J, T, distance, distance / 30 mph, the
\* selector's score), sets J.status = ASSIGNED and J.assigned_at = now and
\* T.free_at = now + travel time + J.estimated_hours.
C5_AssignEffect ==
  [][\A p \in Procs :
       (CommitStep(p) /\ last'.result = "ok")
         => LET j == pjob[p]
                t == psel[p].tech
                d == haversine(jobs[j].lat, jobs[j].lon,
                               techs[t].current_lat, techs[t].current_lon)
            IN /\ assignments' \ assignments =
                    {[job_id |-> j, tech_id |-> t, distance_miles |-> d,
                      travel_time |-> TravelMinutes(d),
                      match_score |-> psel[p].score, assigned_at |-> now]}
               /\ jobs'[j].status = "ASSIGNED"
               /\ jobs'[j].assigned_at = now
               /\ techs'[t].free_at = now + TravelMinutes(d) + jobs[j].estimated_hours * 60]_vars

\* A precondition failure as the caller sees it: the helper answers None
\* and, where a handler made the call, the handler answers 4xx.
Rejected(call) ==
  call.result = "none" /\ (call.response = 0 \/ call.response \in 400..499)

\* C6: cancel on a COMPLETED or CANCELLED job is reported as a
\* precondition failure and changes nothing.
C6_CancelTerminalRejected ==
  [][\A j \in JobIds :
       (CancelJob(j) /\ jobs[j].status \in Terminal)
         => Rejected(last') /\ jobs' = jobs /\ techs' = techs]_vars

\* C7: start on a job that is not ASSIGNED is reported to the caller as a
\* rejected operation and changes nothing.
C7_StartRejected ==
  [][\A j \in JobIds :
       (StartJob(j) /\ jobs[j].status # "ASSIGNED")
         => Rejected(last') /\ jobs' = jobs]_vars

\* C8: start on an ASSIGNED job succeeds: status IN_PROGRESS, started_at =
\* now, submitted_at and assigned_at as before.
C8_StartEffect ==
  [][\A j \in JobIds :
       (StartJob(j) /\ jobs[j].status = "ASSIGNED")
         => /\ last'.result = "ok"
            /\ jobs'[j].status = "IN_PROGRESS"
            /\ jobs'[j].started_at = now
            /\ jobs'[j].submitted_at = jobs[j].submitted_at
            /\ jobs'[j].assigned_at = jobs[j].assigned_at]_vars

\* C9: a start on an ASSIGNED job sets sla_met to whether (started_at -
\* submitted_at), the time from submission to this start, is within the
\* window of the job's priority.
C9_SlaFromSubmissionToStart ==
  [][\A j \in JobIds :
       (StartJob(j) /\ jobs[j].status = "ASSIGNED")
         => jobs'[j].sla_met =
              (IF now - jobs[j].submitted_at <= sla_windows[jobs[j].priority] * 60
               THEN "true" ELSE "false")]_vars

\* C10: start is not repeatable: after a start of an ASSIGNED job a second
\* start of that job is a precondition failure that leaves sla_met,
\* started_at and status alone, and assign, complete and cancel never write
\* sla_met.
C10_StartOnce ==
  [][\A j \in JobIds :
       /\ (StartJob(j) /\ jobs[j].status = "ASSIGNED")
            => LET again == start_job(jobs', j, now')
               IN again.result = "none" /\ again.jobs = jobs'
       /\ (~StartJob(j)) => jobs'[j].sla_met = jobs[j].sla_met]_vars

\* C11: complete on a job that is not IN_PROGRESS is reported to the caller
\* as a precondition failure and changes neither the job nor any
\* technician's free_at.
C11_CompleteRejected ==
  [][\A j \in JobIds, h \in ActualHours :
       (CompleteJob(j, h) /\ jobs[j].status # "IN_PROGRESS")
         => Rejected(last') /\ jobs' = jobs /\ techs' = techs]_vars

\* The technicians get_available_technicians returns, as a set.
AvailableSet(tt, at) ==
  LET pool == get_available_technicians(tt, at)
  IN {pool[i] : i \in 1..Len(pool)}

\* C12: complete(j, h) on an IN_PROGRESS job succeeds: status COMPLETED,
\* completed_at = now, actual_hours = h, and the technician of the job's
\* Assignment has free_at = now and is in the available pool right after.
C12_CompleteEffect ==
  [][\A j \in JobIds, h \in ActualHours :
       (CompleteJob(j, h) /\ jobs[j].status = "IN_PROGRESS")
         => /\ last'.result = "ok"
            /\ jobs'[j].status = "COMPLETED"
            /\ jobs'[j].completed_at = now
            /\ jobs'[j].actual_hours = h
            /\ \A a \in AssignmentsOf(j) :
                 /\ techs'[a.tech_id].free_at = now
                 /\ a.tech_id \in AvailableSet(techs', now')]_vars

\* C13: cancel on a PENDING, ASSIGNED or IN_PROGRESS job succeeds and sets
\* CANCELLED; the technician of the job's Assignment gets free_at = now and
\* no other technician's free_at changes.
C13_CancelEffect ==
  [][\A j \in JobIds :
       (CancelJob(j) /\ jobs[j].status \in {"PENDING", "ASSIGNED", "IN_PROGRESS"})
         => /\ last'.result = "ok"
            /\ jobs'[j].status = "CANCELLED"
            /\ \A t \in TechIds :
                 techs'[t].free_at =
                   IF \E a \in AssignmentsOf(j) : a.tech_id = t
                   THEN now ELSE techs[t].free_at]_vars

\* The timestamps of a job in lifecycle order.
Stamps(job) ==
  <<job.submitted_at, job.assigned_at, job.started_at, job.completed_at>>

\* The timestamps that are present are in order.
StampsOrdered(job) ==
  \A a, b \in 1..4 :
    (a < b /\ Stamps(job)[a] # None /\ Stamps(job)[b] # None)
      => Stamps(job)[a] <= Stamps(job)[b]

\* C14: the timestamps of a job that are present are always in the order
\* submitted_at <= assigned_at <= started_at <= completed_at, and each of
\* assign, start and complete leaves its own timestamp present, so that
\* after the three all four are present.
C14_TimestampsMonotonic ==
  /\ [](\A j \in JobIds : StampsOrdered(jobs[j]))
  /\ [][\A j \in JobIds :
          /\ (\E p \in Procs : CommitStep(p) /\ pjob[p] = j /\ last'.result = "ok")
               => jobs'[j].assigned_at # None
          /\ (StartJob(j) /\ jobs[j].status = "ASSIGNED")
               => jobs'[j].started_at # None
          /\ (\E h \in ActualHours : CompleteJob(j, h) /\ jobs[j].status = "IN_PROGRESS")
               => jobs'[j].completed_at # None]_vars

\* C15: status and timestamps agree (assigned_at set once the job has been
\* assigned, started_at once it has been started, completed_at exactly when
\* COMPLETED, none of them while PENDING), and a timestamp is written only
\* by its own transition and only once.
C15_StatusAgreesWithTimestamps ==
  /\ [](\A j \in JobIds :
          /\ WasAssigned(jobs[j].status) => jobs[j].assigned_at # None
          /\ WasStarted(jobs[j].status) => jobs[j].started_at # None
          /\ (jobs[j].status = "COMPLETED") <=> (jobs[j].completed_at # None)
          /\ jobs[j].status = "PENDING"
               => /\ jobs[j].assigned_at = None
                  /\ jobs[j].started_at = None
                  /\ jobs[j].completed_at = None)
  /\ [][\A j \in JobIds :
          /\ jobs'[j].assigned_at # jobs[j].assigned_at
               => jobs[j].assigned_at = None /\ \E p \in Procs : CommitStep(p) /\ pjob[p] = j
          /\ jobs'[j].started_at # jobs[j].started_at
               => jobs[j].started_at = None /\ StartJob(j)
          /\ jobs'[j].completed_at # jobs[j].completed_at
               => jobs[j].completed_at = None
                  /\ \E h \in ActualHours : CompleteJob(j, h)]_vars

C17_FreeAtMonotonic ==
  [][\A t \in TechIds :
       (techs[t].free_at # None /\ techs'[t].free_at # None
          /\ techs'[t].free_at < techs[t].free_at)
         => \E j \in JobIds :
              /\ CancelJob(j) \/ \E h \in ActualHours : CompleteJob(j, h)
              /\ \E a \in AssignmentsOf(j) : a.tech_id = t]_vars

\* The technician holds, as a name or with a level, not every skill the
\* job requires.
MissingSkill(tech, job) ==
  \E s \in job.required_skills : s \notin tech.skills \cup DOMAIN tech.skill_levels

\* C18: a technician missing a required skill of a job has skill factor 0,
\* is returned for that job neither by find_best_technician (whatever the
\* pool) nor by _simple_assign_job, and no Assignment joins such a pair.
C18_MissingSkillNeverSelected ==
  /\ \A j \in JobIds, t \in TechIds :
       MissingSkill(techs[t], jobs[j])
         => /\ _score_skill_match(techs[t], jobs[j]) = 0
            /\ \A pool \in Pools :
                 find_best_technician(jobs, techs, now, j, pool).tech # t
            /\ _simple_assign_job(jobs, techs, assignments, j, now).tech # t
  /\ \A a \in assignments : ~MissingSkill(techs[a.tech_id], jobs[a.job_id])

\* C18 witness: auto-assign has given a job to the one technician that
\* holds its skill while the other technician, who lacks it, was free and
\* scores higher on utilization and parts.
C18_Witness ==
  \E a \in assignments, t \in TechIds :
    /\ a.match_score # DefaultScore
    /\ MissingSkill(techs[t], jobs[a.job_id])
    /\ techs[t].free_at <= a.assigned_at
    /\ _score_utilization(techs[t], jobs[a.job_id])
         > _score_utilization(techs[a.tech_id], jobs[a.job_id])

\* C19: find_best_technician returns none for a job id that does not exist
\* and for a job that is not PENDING, whatever the pool.
C19_SelectNoneUnlessPending ==
  \A j \in JobArgs, pool \in Pools :
    (j \notin JobIds \/ jobs[j].status # "PENDING")
      => find_best_technician(jobs, techs, now, j, pool).tech = 0

\* The technicians table with the technicians in S reserved until later.
Reserved(tt, S, at) ==
  [t \in DOMAIN tt |-> IF t \in S THEN [tt[t] EXCEPT !.free_at = at + 1] ELSE tt[t]]

\* No available technician has a non-zero skill factor for job j.
NoneQualifies(js, tt, at, j) ==
  \A t \in AvailableSet(tt, at) : _score_skill_match(tt[t], js[j]) = 0

\* C20: when no technician qualifies for a job, because the pool is empty
\* or every candidate has skill factor 0, find_best_technician returns
\* none, and an auto-assign of the job ends with no new Assignment, the job
\* still PENDING and every technician's free_at unchanged.
C20_NoCandidateLeavesPending ==
  /\ [](\A j \in JobIds, S \in SUBSET TechIds :
          NoneQualifies(jobs, Reserved(techs, S, now), now, j)
            => /\ find_best_technician(jobs, Reserved(techs, S, now), now, j, <<>>).tech = 0
               /\ _simple_assign_job(jobs, Reserved(techs, S, now), assignments, j, now).result
                    = "none")
  /\ [][\A j \in JobIds :
          ( /\ NoneQualifies(jobs, techs, now, j)
            /\ \/ SimpleAssignJob(j)
               \/ \E p \in Procs : AutoAssignSelect(p) /\ pjob[p] = j )
            => /\ last'.result = "none"
               /\ \A p \in Procs : pc'[p] = "idle"
               /\ assignments' = assignments
               /\ jobs' = jobs
               /\ techs' = techs]_vars

\* C20 witness: an auto-assign of a job has returned none while the job was
\* PENDING with technicians available, all of them lacking a required
\* skill; nothing has been assigned.
C20_Witness ==
  /\ last.op = "auto_assign" /\ last.result = "none" /\ last.job \in JobIds
  /\ jobs[last.job].status = "PENDING"
  /\ AvailableSet(techs, now) # {}
  /\ NoneQualifies(jobs, techs, now, last.job)
  /\ AssignmentsOf(last.job) = {}

\* The candidates find_best_technician iterates over when called with
\* `pool`: the pool itself, or the available technicians when it is empty.
CandidatesOf(pool) ==
  IF pool = <<>> THEN get_available_technicians(techs, now) ELSE pool

\* The total score of technician t for job j on the current store.
TotalOf(t, j) == calculate_assignment_score(jobs, techs[t], j).final_score

\* The positions of the candidates that are not disqualified for job j.
QualifiedIn(c, j) ==
  {i \in 1..Len(c) : _score_skill_match(techs[c[i]], jobs[j]) # 0}

\* C21: find_best_technician returns, with its total, a candidate that is
\* not disqualified and whose total is the maximum among those, and the
\* first such candidate in the order of the pool; none when every candidate
\* is disqualified.
C21_MaxScoreFirstWins ==
  [][\A pool \in Pools :
       FindBest(ApiSession, ScoredJob, pool)
         => LET c == CandidatesOf(pool)
                Q == QualifiedIn(c, ScoredJob)
                got == psel'[ApiSession]
            IN IF Q = {} THEN got.tech = 0
               ELSE \E i \in Q :
                      /\ got.tech = c[i]
                      /\ got.score = TotalOf(c[i], ScoredJob)
                      /\ \A k \in Q :
                           /\ TotalOf(c[k], ScoredJob) <= got.score
                           /\ k < i => TotalOf(c[k], ScoredJob) < got.score]_vars

\* C21 witness: the engine has returned a technician while another
\* candidate, active and not disqualified, has the same total.
C21_Witness ==
  /\ last.op = "find_best_technician" /\ last.result = "ok"
  /\ \E u \in TechIds \ {psel[ApiSession].tech} :
       /\ techs[u].active
       /\ _score_skill_match(techs[u], jobs[ScoredJob]) # 0
       /\ TotalOf(u, ScoredJob) = psel[ApiSession].score

\* C22: without an explicit pool the candidates are exactly the active
\* technicians whose free_at is null or not later than now, every
\* technician auto-assign selects is one of them, and at the commit of an
\* assignment the technician is active and its free_at is not later than
\* the time of the assignment.
C22_OnlyAvailableAssigned ==
  /\ [](AvailableSet(techs, now) =
          {t \in TechIds : /\ techs[t].active
                           /\ techs[t].free_at = None \/ techs[t].free_at <= now})
  /\ [][\A p \in Procs :
          /\ (AutoAssignSelect(p) /\ pc'[p] = "commit")
               => psel'[p].tech \in AvailableSet(techs, now)
          /\ (CommitStep(p) /\ last'.result = "ok")
               => /\ techs[psel[p].tech].active
                  /\ \/ techs[psel[p].tech].free_at = None
                     \/ techs[psel[p].tech].free_at <= now]_vars

\* The technician's skills are recorded as names only and include every
\* skill the job requires.
HoldsByNameOnly(tech, job) ==
  /\ DOMAIN tech.skill_levels = {}
  /\ job.required_skills # {}
  /\ job.required_skills \subseteq tech.skills

\* C23: a technician with a skills list and no skill levels who holds every
\* required skill has skill factor 1/5 and, when available and the only
\* technician holding the required skills, is the one the engine returns
\* for auto-assign.
C23_NamesOnlyQualifies ==
  [][\A t \in TechIds :
       ( /\ FindBest(ApiSession, ScoredJob, <<>>) \/ AutoAssignSelect(ApiSession)
         /\ HoldsByNameOnly(techs[t], jobs[ScoredJob])
         /\ t \in AvailableSet(techs, now)
         /\ \A u \in TechIds \ {t} : MissingSkill(techs[u], jobs[ScoredJob]) )
         => /\ _score_skill_match(techs[t], jobs[ScoredJob]) = FactorOne \div 5
            /\ psel'[ApiSession].tech = t]_vars

\* The mean of proficiency / 5 over the required skills.
MeanProficiency(tech, job) ==
  SumOver(job.required_skills,
          [s \in job.required_skills |-> (tech.skill_levels[s] * FactorOne) \div 5])
    \div Cardinality(job.required_skills)

\* The skill factor the rule gives a technician with a level for every
\* required skill.
ExpectedSkill(tech, job) ==
  IF job.required_skills = {} THEN FactorOne
  ELSE IF /\ job.priority \in {"CRITICAL", "EMERGENCY"}
          /\ MeanProficiency(tech, job) * 10 > FactorOne * 8
       THEN Min(FactorOne, (MeanProficiency(tech, job) * 11) \div 10)
       ELSE MeanProficiency(tech, job)

\* C24: the skill factor of a technician with a level for every required
\* skill is the mean of level / 5, times 1.1 capped at 1.0 on a CRITICAL or
\* EMERGENCY job when the mean exceeds 0.8, and 1.0 for a job without
\* required skills; with T (HVAC:5) and U (HVAC:2), otherwise identical, in
\* the pool of the ROUTINE HVAC job the factors are 1.0 and 0.4 and the
\* engine returns T.
C24_SkillFactor ==
  /\ [](\A t \in TechIds :
          LET tech == techs[t]
              job == jobs[ScoredJob]
          IN /\ job.required_skills = {} => _score_skill_match(tech, job) = FactorOne
             /\ job.required_skills \subseteq DOMAIN tech.skill_levels
                  => _score_skill_match(tech, job) = ExpectedSkill(tech, job))
  /\ [][\A pool \in Pools :
          ( /\ FindBest(ApiSession, ScoredJob, pool)
            /\ jobs[ScoredJob].required_skills = {"HVAC"}
            /\ jobs[ScoredJob].priority = "ROUTINE"
            /\ techs[1] = TechT
            /\ techs[2] = TechU )
            => /\ _score_skill_match(techs[1], jobs[ScoredJob]) = FactorOne
               /\ _score_skill_match(techs[2], jobs[ScoredJob]) = (FactorOne * 4) \div 10
               /\ {CandidatesOf(pool)[i] : i \in 1..Len(CandidatesOf(pool))} = {1, 2}
                    => /\ psel'[ApiSession].tech = 1
                       /\ psel'[ApiSession].breakdown.skill = FactorOne]_vars

\* T was selected over U for the ROUTINE HVAC job from a pool listing U first.
C24_Witness ==
  /\ last.op = "find_best_technician"
  /\ last.result = "ok"
  /\ jobs[ScoredJob].priority = "ROUTINE"
  /\ techs[1] = TechT
  /\ techs[2] = TechU
  /\ psel[ApiSession].tech = 1
  /\ psel[ApiSession].breakdown.skill = FactorOne

\* A technician whose mean proficiency of 0.9 is raised to 0.99 was selected
\* for the CRITICAL job.
C24_WitnessBonus ==
  /\ last.op = "find_best_technician"
  /\ last.result = "ok"
  /\ jobs[ScoredJob].priority = "CRITICAL"
  /\ MeanProficiency(techs[psel[ApiSession].tech], jobs[ScoredJob]) = (FactorOne * 9) \div 10
  /\ psel[ApiSession].breakdown.skill = (FactorOne * 99) \div 100

\* The multiplier of a priority, in tenths.
MultiplierOf(priority) ==
  CASE priority = "ROUTINE" -> 10
    [] priority = "HIGH" -> 11
    [] priority = "URGENT" -> 12
    [] priority = "EMERGENCY" -> 15
    [] priority = "CRITICAL" -> 20

\* C25: the total is (0.35 skill + 0.25 utilization + 0.20 geography +
\* 0.15 parts + 0.05 customer) times the multiplier of the job's priority,
\* and the returned breakdown holds the five factor scores, the multiplier
\* applied and a final total equal to the returned total.
C25_WeightedTotal ==
  [][\A pool \in Pools :
       FindBest(ApiSession, ScoredJob, pool) /\ last'.result = "ok"
         => LET got == psel'[ApiSession]
                b == got.breakdown
                tech == techs[got.tech]
                job == jobs[ScoredJob]
            IN /\ DOMAIN b = {"skill", "utilization", "geography", "parts", "customer",
                              "priority_multiplier", "final_score"}
               /\ b.skill = _score_skill_match(tech, job)
               /\ b.utilization = _score_utilization(tech, job)
               /\ b.geography = _score_geography(jobs, tech, ScoredJob)
               /\ b.parts = _score_parts_availability(tech, job)
               /\ b.customer = _score_customer_preference(tech, job)
               /\ b.priority_multiplier = MultiplierOf(job.priority)
               /\ b.final_score = got.score
               /\ got.score = (35 * b.skill + 25 * b.utilization + 20 * b.geography
                                 + 15 * b.parts + 5 * b.customer)
                              * MultiplierOf(job.priority)]_vars

\* A technician was returned for the CRITICAL job with the doubled total.
C25_Witness ==
  /\ last.op = "find_best_technician"
  /\ last.result = "ok"
  /\ jobs[ScoredJob].priority = "CRITICAL"
  /\ psel[ApiSession].breakdown.priority_multiplier = 20
  /\ psel[ApiSession].score > 0
  /\ psel[ApiSession].score = psel[ApiSession].breakdown.final_score

\* The total of technician t for the scored job had it priority p.
TotalAt(t, p) ==
  calculate_assignment_score([jobs EXCEPT ![ScoredJob].priority = p],
                             techs[t], ScoredJob).final_score

PriorityOrder == <<"ROUTINE", "HIGH", "URGENT", "EMERGENCY", "CRITICAL">>

\* C26: every total is >= 0, and for the same technician and otherwise
\* identical job the total strictly increases along ROUTINE < HIGH < URGENT
\* < EMERGENCY < CRITICAL.
C26_PriorityIncreases ==
  /\ [](\A t \in TechIds :
          /\ TotalOf(t, ScoredJob) >= 0
          /\ \A i \in 1..4 : TotalAt(t, PriorityOrder[i]) < TotalAt(t, PriorityOrder[i + 1]))
  /\ [][\A pool \in Pools :
          FindBest(ApiSession, ScoredJob, pool) /\ last'.result = "ok"
            => /\ psel'[ApiSession].score >= 0
               /\ jobs[ScoredJob].priority # "ROUTINE"
                    => TotalAt(psel'[ApiSession].tech, "ROUTINE") < psel'[ApiSession].score]_vars

\* A technician was returned for an EMERGENCY job with a total above the one
\* the URGENT job would give and below the one the CRITICAL job would give.
C26_Witness ==
  /\ last.op = "find_best_technician"
  /\ last.result = "ok"
  /\ jobs[ScoredJob].priority = "EMERGENCY"
  /\ TotalAt(psel[ApiSession].tech, "URGENT") < psel[ApiSession].score
  /\ psel[ApiSession].score < TotalAt(psel[ApiSession].tech, "CRITICAL")

\* The jobs other than j that are assigned to technician t and not yet
\* started: t's scheduled jobs.
ScheduledFor(t, j) ==
  {k \in JobIds \ {j} :
     /\ jobs[k].status = "ASSIGNED"
     /\ \E a \in assignments : a.job_id = k /\ a.tech_id = t}

\* The geography factor the rule gives technician t, located at non-zero
\* coordinates or nowhere, for job j with coordinates.
ExpectedGeography(t, j) ==
  LET tech == techs[t]
      job == jobs[j]
      to_job == GreatCircle(tech.current_lat, tech.current_lon, job.lat, job.lon)
  IN IF tech.current_lat = None \/ tech.current_lon = None
     THEN FactorOne \div 2
     ELSE IF ScheduledFor(t, j) = {}
     THEN (CASE to_job < 5 -> FactorOne
             [] to_job >= 5 /\ to_job < 15 -> (FactorOne * 8) \div 10
             [] to_job >= 15 /\ to_job < 30 -> FactorOne \div 2
             [] to_job >= 30 -> FactorOne \div 5)
     ELSE LET n == jobs[CHOOSE k \in ScheduledFor(t, j) : TRUE]
              detour == to_job + GreatCircle(job.lat, job.lon, n.lat, n.lon)
                          - GreatCircle(tech.current_lat, tech.current_lon, n.lat, n.lon)
          IN CASE detour < 5 -> FactorOne
               [] detour >= 5 /\ detour < 15 -> (FactorOne * 7) \div 10
               [] detour >= 15 -> (FactorOne * 3) \div 10

\* C27: the geography factor is 0.5 for a technician without a location;
\* otherwise 1.0 / 0.8 / 0.5 / 0.2 by the distance to the job when the
\* technician has no next scheduled job, and 1.0 / 0.7 / 0.3 by the detour
\* through the technician's next scheduled job when there is one.
C27_GeographyFactor ==
  [][\A pool \in Pools :
       ( /\ FindBest(ApiSession, ScoredJob, pool)
         /\ last'.result = "ok"
         /\ jobs[ScoredJob].lat # None
         /\ jobs[ScoredJob].lon # None
         /\ techs[psel'[ApiSession].tech].current_lat # 0
         /\ techs[psel'[ApiSession].tech].current_lon # 0 )
         => psel'[ApiSession].breakdown.geography
              = ExpectedGeography(psel'[ApiSession].tech, ScoredJob)]_vars

\* The factors that the tiers give technician t for job j on the real
\* coordinates of both: by the distance to the job, or by the detour through
\* another job with coordinates.
RealDistanceFactors(t, j) ==
  LET tech == techs[t]
      job == jobs[j]
      to_job == GreatCircle(tech.current_lat, tech.current_lon, job.lat, job.lon)
  IN {DistanceTier(to_job)}
       \cup {DetourTier(to_job + GreatCircle(job.lat, job.lon, jobs[k].lat, jobs[k].lon)
                          - GreatCircle(tech.current_lat, tech.current_lon,
                                        jobs[k].lat, jobs[k].lon)) :
               k \in {m \in JobIds \ {j} : jobs[m].lat # None /\ jobs[m].lon # None}}

\* C28: a null coordinate of the technician or of the job means "distance
\* unknown" and gives the neutral geography factor, while a technician at
\* latitude 0 or longitude 0 is scored by the real distance.
C28_NullIsNotZero ==
  [][\A pool \in Pools :
       FindBest(ApiSession, ScoredJob, pool) /\ last'.result = "ok"
         => LET t == psel'[ApiSession].tech
                tech == techs[t]
                job == jobs[ScoredJob]
                geography == psel'[ApiSession].breakdown.geography
            IN IF \/ tech.current_lat = None \/ tech.current_lon = None
                  \/ job.lat = None \/ job.lon = None
               THEN geography = FactorOne \div 2
               ELSE geography \in RealDistanceFactors(t, ScoredJob)]_vars

\* The part of C28 about a technician at latitude 0 or longitude 0.
C28_ZeroIsALocation ==
  [][\A pool \in Pools :
       ( /\ FindBest(ApiSession, ScoredJob, pool)
         /\ last'.result = "ok"
         /\ jobs[ScoredJob].lat # None
         /\ techs[psel'[ApiSession].tech].current_lat = 0 )
         => psel'[ApiSession].breakdown.geography
              \in RealDistanceFactors(psel'[ApiSession].tech, ScoredJob)]_vars

\* The part of C28 about a job without coordinates.
C28_NullJobIsUnknown ==
  [][\A pool \in Pools :
       ( /\ FindBest(ApiSession, ScoredJob, pool)
         /\ last'.result = "ok"
         /\ jobs[ScoredJob].lat = None )
         => psel'[ApiSession].breakdown.geography = FactorOne \div 2]_vars

\* The required (SKU, quantity) pairs of a job that the technician carries
\* in sufficient quantity.
Covered(tech, job) ==
  {part \in job.parts :
     \E sku \in DOMAIN tech.inventory : sku = part[1] /\ tech.inventory[sku] >= part[2]}

\* C29: the parts factor is 1.0 for a job requiring no parts, and otherwise
\* the number of required (SKU, quantity) pairs the technician carries in
\* sufficient quantity over the number of required pairs.
C29_PartsFactor ==
  /\ [](\A t \in TechIds :
          LET f == _score_parts_availability(techs[t], jobs[ScoredJob])
              n == Cardinality(jobs[ScoredJob].parts)
          IN IF n = 0 THEN f = FactorOne
             ELSE f = (Cardinality(Covered(techs[t], jobs[ScoredJob])) * FactorOne) \div n)
  /\ [][\A pool \in Pools :
          FindBest(ApiSession, ScoredJob, pool) /\ last'.result = "ok"
            => LET tech == techs[psel'[ApiSession].tech]
                   n == Cardinality(jobs[ScoredJob].parts)
               IN psel'[ApiSession].breakdown.parts * (IF n = 0 THEN 1 ELSE n)
                    = FactorOne * (IF n = 0 THEN 1
                                   ELSE Cardinality(Covered(tech, jobs[ScoredJob])))]_vars

\* A technician carrying a required SKU in too small a quantity was
\* returned with a parts factor of 0.
C29_Witness ==
  /\ last.op = "find_best_technician"
  /\ last.result = "ok"
  /\ \E part \in jobs[ScoredJob].parts :
       /\ part[1] \in DOMAIN techs[psel[ApiSession].tech].inventory
       /\ techs[psel[ApiSession].tech].inventory[part[1]] < part[2]
  /\ psel[ApiSession].breakdown.parts = 0

\* A technician covering one of the two required pairs was returned with a
\* parts factor of 0.5.
C29_WitnessHalf ==
  /\ last.op = "find_best_technician"
  /\ last.result = "ok"
  /\ Cardinality(jobs[ScoredJob].parts) = 2
  /\ psel[ApiSession].breakdown.parts = FactorOne \div 2

\* The stores that differ from the current one in jobs other than j, none
\* of them scheduled for any technician.
OtherStores(j) ==
  {[k \in JobIds |-> IF k = j THEN jobs[j] ELSE JobOf(o[k], 0)] :
     o \in [JobIds -> OtherRequests]}

\* C30: the total and the breakdown of a technician for a job depend only
\* on that technician, that job and that technician's own context, so a
\* store that differs in unrelated jobs gives the same total, the same
\* breakdown and the same technician selected from the same pool.
C30_ScoreIgnoresUnrelated ==
  [][\A pool \in Pools :
       FindBest(ApiSession, ScoredJob, pool) /\ assignments = {}
         => \A other \in OtherStores(ScoredJob) :
              LET again == find_best_technician(other, techs, now, ScoredJob, pool)
              IN /\ again.tech = psel'[ApiSession].tech
                 /\ again.tech # 0
                      => /\ again.score = psel'[ApiSession].score
                         /\ again.breakdown = psel'[ApiSession].breakdown]_vars

\* The technicians listed in a pool.
MembersOf(pool) == {pool[i] : i \in 1..Len(pool)}

\* C33: a call of the engine with an explicit pool returns none or a member
\* of that pool; with the explicit empty pool it returns none.
C33_ExplicitPoolRespected ==
  [][\A pool \in Pools :
       FindBest(ApiSession, ScoredJob, pool)
         => \/ psel'[ApiSession].tech = 0
            \/ psel'[ApiSession].tech \in MembersOf(pool)]_vars

\* The part of C33 about non-empty pools.
C33_NonEmptyPoolRespected ==
  [][\A pool \in Pools \ {<<>>} :
       FindBest(ApiSession, ScoredJob, pool)
         => \/ psel'[ApiSession].tech = 0
            \/ psel'[ApiSession].tech \in MembersOf(pool)]_vars

\* C34: a job that is ASSIGNED, IN_PROGRESS or COMPLETED has exactly one
\* Assignment row and a PENDING job has none; every row names a job and a
\* technician of the store; rows are added only by the assignment operation
\* and never changed or removed.
C34_AssignmentRows ==
  /\ [](\A j \in JobIds :
          /\ WasAssigned(jobs[j].status) => Cardinality(AssignmentsOf(j)) = 1
          /\ jobs[j].status = "PENDING" => AssignmentsOf(j) = {})
  /\ [](\A a \in assignments : a.job_id \in JobIds /\ a.tech_id \in TechIds)
  /\ [][/\ assignments \subseteq assignments'
        /\ assignments' # assignments
             => \/ \E p \in Procs : CommitStep(p)
                \/ \E j \in JobArgs : SimpleAssignJob(j)]_vars

\* The parts of C34 other than "exactly one": no row for a PENDING job,
\* rows name stored jobs and technicians, rows are only added, and only by
\* the assignment operation.
C34_RowsOnlyAdded ==
  /\ [](\A j \in JobIds : jobs[j].status = "PENDING" => AssignmentsOf(j) = {})
  /\ [](\A a \in assignments : a.job_id \in JobIds /\ a.tech_id \in TechIds)
  /\ [][/\ assignments \subseteq assignments'
        /\ assignments' # assignments
             => \/ \E p \in Procs : CommitStep(p)
                \/ \E j \in JobArgs : SimpleAssignJob(j)]_vars

\* The jobs technician t is the assignee of that are neither finished nor
\* cancelled.
ActiveJobsOf(t) ==
  {j \in JobIds :
     /\ jobs[j].status \in {"ASSIGNED", "IN_PROGRESS"}
     /\ \E a \in AssignmentsOf(j) : a.tech_id = t}

\* C35: no technician is the assignee of two jobs that are ASSIGNED or
\* IN_PROGRESS at the same time, and auto-assign never selects a technician
\* who still has such a job.
C35_OneActiveJobPerTech ==
  /\ [](\A t \in TechIds : Cardinality(ActiveJobsOf(t)) <= 1)
  /\ [][\A p \in Procs :
          AutoAssignSelect(p) /\ pc'[p] = "commit"
            => ActiveJobsOf(psel'[p].tech) = {}]_vars

C31_ConnectedThenPong ==
  /\ [](\A c \in Conns :
          IF client[c].state = "new" THEN inbox[c] = <<>>
          ELSE /\ inbox[c] # <<>>
               /\ Head(inbox[c]).type = "connected"
               /\ client[c].endpoint = "tech" => Head(inbox[c]).tech_id = client[c].tech_id)
  /\ [][\A c \in Conns :
          Ping(c) => /\ inbox'[c] = Append(inbox[c], Message("pong", 0, <<>>))
                     /\ \A d \in Conns \ {c} : inbox'[d] = inbox[d]]_vars

\* A dispatcher client has received "connected" and then one "pong" while
\* another dispatcher client, connected too, has received "connected" only.
C31_Witness ==
  \E c \in Conns, d \in Conns :
    /\ c # d
    /\ client[c].state = "open" /\ client[c].endpoint = "dispatcher"
    /\ client[d].state = "open" /\ client[d].endpoint = "dispatcher"
    /\ inbox[c] = <<Message("connected", 0, <<>>), Message("pong", 0, <<>>)>>
    /\ inbox[d] = <<Message("connected", 0, <<>>)>>

\* A call of broadcast ends in this step.
BroadcastEnds == bc.on /\ ~bc'.on

\* C39: a call of broadcast has attempted delivery to every connection that
\* was registered under the type when it ends, it removes exactly the
\* connections whose send failed, every delivery it makes reaches an open
\* connection and a failed send delivers nothing, and disconnecting a
\* connection that is not registered changes nothing.
C39_BroadcastReachesAll ==
  /\ [][BroadcastEnds
          => /\ bc.snapshot \subseteq bc.visited
             /\ active_connections'[bc.client_type]
                  = active_connections[bc.client_type] \ bc.disconnected
             /\ \A c \in bc.disconnected : SendFails(client, c)
             /\ client' = client]_vars
  /\ [][bc'.on
          => \A c \in bc'.visited \ bc.visited :
               IF SendFails(client, c)
               THEN c \in bc'.disconnected /\ inbox'[c] = inbox[c]
               ELSE c \notin bc'.disconnected /\ inbox'[c] = Append(inbox[c], bc'.message)]_vars
  /\ [](\A c \in Conns, k \in DOMAIN active_connections :
          c \notin active_connections[k]
            => disconnect(active_connections, c, k) = active_connections)

\* The same for the calls of broadcast during which no connection is
\* registered or removed.
C39_QuietBroadcast ==
  [][BroadcastEnds /\ active_connections[bc.client_type] = bc.snapshot
       => /\ bc.snapshot \subseteq bc.visited
          /\ active_connections'[bc.client_type]
               = active_connections[bc.client_type] \ bc.disconnected
          /\ client' = client]_vars

\* The location scoring and assignment read for technician t.
LocationOf(tt, t) == <<tt[t].current_lat, tt[t].current_lon>>

\* What a location update has to leave alone.
LocationFrame ==
  /\ \A j \in JobIds : jobs'[j].status = jobs[j].status
  /\ assignments' = assignments
  /\ \A t \in TechIds : techs'[t].free_at = techs[t].free_at

\* C38: after an accepted location update (lat, lon) of an existing
\* technician, scoring and assignment read (lat, lon) as that technician's
\* location; the update changes no job status, no Assignment and no free_at;
\* an update for an unknown technician id changes nothing.
C38_LocationUpdateTakesEffect ==
  [][\A c \in Conns, l \in Locations :
       LocationUpdate(c, l[1], l[2])
         => IF client[c].tech_id \in TechIds
            THEN /\ last'.result = "ok"
                 /\ LocationOf(techs', client[c].tech_id) = l
                 /\ LocationFrame
            ELSE <<jobs, techs, assignments>>' = <<jobs, techs, assignments>>]_vars

\* The same for a direct call of update_tech_location.
C38_DirectUpdate ==
  [][\A t \in TechArgs, l \in Locations :
       UpdateTechLocation(t, l[1], l[2])
         => IF t \in TechIds
            THEN /\ last'.result = "ok"
                 /\ LocationOf(techs', t) = l
                 /\ \A u \in TechIds \ {t} : techs'[u] = techs[u]
                 /\ LocationFrame
            ELSE /\ last'.result = "none"
                 /\ <<jobs, techs, assignments>>' = <<jobs, techs, assignments>>]_vars

\* Everything of C38 except the new location, for the update that arrives
\* on the technician's connection.
C38_LocationUpdateFrame ==
  [][\A c \in Conns, l \in Locations :
       LocationUpdate(c, l[1], l[2])
         => IF client[c].tech_id \in TechIds
            THEN LocationFrame
            ELSE <<jobs, techs, assignments>>' = <<jobs, techs, assignments>>]_vars

\* The type of the message api.py builds after each kind of request.
EventOf == [auto_assign |-> "job_assigned", start |-> "job_started",
            complete |-> "job_completed"]

\* A request for auto-assign, start or complete succeeds in this step.
RequestSucceeds ==
  /\ last'.op \in DOMAIN EventOf
  /\ last'.result = "ok"
  /\ jobs' # jobs

\* C32: every successful auto-assign, start and complete made over HTTP
\* sends its event (job_assigned, job_started, job_completed) to every
\* dispatcher connected at that moment and answers the caller with the
\* updated entity (200).
C32_SuccessIsBroadcast ==
  [][RequestSucceeds
       => /\ last'.response = 200
          /\ \A c \in active_connections["dispatchers"] :
               ~SendFails(client, c)
                 => /\ Len(inbox'[c]) = Len(inbox[c]) + 1
                    /\ inbox'[c][Len(inbox'[c])].type = EventOf[last'.op]]_vars

\* A dispatcher is listening when an auto-assign has just succeeded.
C32_ListenerAtSuccess ==
  /\ last.op = "auto_assign"
  /\ last.result = "ok"
  /\ \E c \in active_connections["dispatchers"] : client[c].state = "open"

\* The broadcast of C32 alone: a dispatcher connected when a request
\* succeeds is sent the event.
C32_ListenersHearSuccess ==
  [][RequestSucceeds
       => \A c \in active_connections["dispatchers"] :
            ~SendFails(client, c) => inbox'[c] # inbox[c]]_vars

\* What a failed operation has to leave as it was: the jobs, every
\* technician's free_at and the Assignment rows.
Stored == <<jobs, [t \in TechIds |-> techs[t].free_at], assignments>>

\* An operation ends in this step by failing: None or an exception.
OperationFails ==
  /\ last' # last
  /\ last'.op \in {"auto_assign", "start", "complete", "cancel"}
  /\ last'.result \in {"none", "raised"}

\* C37: an auto-assign, start, complete or cancel that fails or raises
\* leaves the jobs, every free_at and the Assignment rows as they were
\* before the call: nothing changes in the step in which it fails, and
\* nothing changes while a call that is going to raise is under way, whatever
\* else uses the shared session meanwhile.
C37_AllOrNothing ==
  /\ [][OperationFails => Stored' = Stored]_vars
  /\ [][pc[ApiSession] \in DOMAIN WrittenStatus => Stored' = Stored]_vars

\* The same for operations that run one at a time, each to its end.
C37_UndisturbedAllOrNothing ==
  [][OperationFails => Stored' = Stored]_vars

====
